---- MODULE Spec2Model ----
(***************************************************************************)
(* Model of pytsdl/parser.py: the scope resolver (Parser.resolve_types and *)
(* Parser.resolve_type), the Integer descriptor constructor and the enum   *)
(* label bookkeeping (Enum._init_enum_labels).                             *)
(*                                                                         *)
(* The AST is a heap of nodes addressed by identity (Python objects), so   *)
(* sharing, copying and in-place rewriting of type slots are observable.   *)
(***************************************************************************)
EXTENDS Integers, Sequences, FiniteSets, TLC

VARIABLES
    heap,          \* the AST: node id -> node (Python objects by identity)
    root,          \* id of the Top scope returned by get_ast
    frames,        \* call stack of resolve_types: <<[scope, i]>>, innermost last
    scope_stores,  \* the list of symbol tables passed down the recursion
    status,        \* "idle" | "parsed" | "running" | "returned" | "raised"
    err,           \* the name carried by the ParseError, <<>> when none
    ret,           \* what Parser.parse returned (node id), Null when nothing
    ast0,          \* history: the tree as built by get_ast
    origin,        \* history: node id -> the node it was deep-copied from
    log,           \* history: one record per successful lookup
    fail,          \* history: the lookups that raised
    steps,         \* history: number of steps of the pass so far
    assignments,   \* Integer.__init__: the parsed assignments
    ia,            \* Integer.__init__: index of the next assignment
    integer,       \* Integer.__init__: the object's attributes
    istatus,       \* "idle" | "loop" | "done" | "AttributeError"
    enumerators,   \* Enum._init_enum_labels: the enumerator list
    ie,            \* Enum._init_enum_labels: index of the next enumerator
    labels,        \* Enum._init_enum_labels: self._labels
    cur,           \* Enum._init_enum_labels: the cursor
    curs           \* history: the range and the cursor after each enumerator

resolver_vars == <<heap, root, frames, scope_stores, status, err, ret,
                   ast0, origin, log, fail, steps>>
integer_vars == <<assignments, ia, integer, istatus>>
enum_vars == <<enumerators, ie, labels, cur, curs>>
vars == <<resolver_vars, integer_vars, enum_vars>>

(***************************************************************************)
(* Bounds of the model.                                                    *)
(***************************************************************************)
\* entries below Top, nested ones included, every kind of entry allowed
MaxEntries == 2
\* entries in the body of the struct of a one-namespace tree, nested included
MaxCore == 3
\* assignments in one integer { ... } block
MaxAssign == 3
\* enumerators in one enum { ... } block
MaxLabels == 3

(***************************************************************************)
(* AST node model.  Every node has the same fields; a field a class does   *)
(* not have holds NoName / NoTag / Null / <<>>.                            *)
(***************************************************************************)
Null == 0
NoName == <<>>
NoTag == "none"

\* Identifiers are sequences of characters.
Names == {<<"x">>}
Tags == {"t1", "t2"}

Node(kind, name, tag, type, int_type, entries) ==
    [kind |-> kind, name |-> name, tag |-> tag, type |-> type,
     int_type |-> int_type, entries |-> entries]

\* A tree under construction is the sequence of its nodes in document
\* order, each reference held as the distance from the referring node to
\* the node referred to (0: none).  A body is the nodes of the entries of a
\* scope, with the place of each entry in it.
EmptyBody == [nodes |-> <<>>, starts |-> <<>>]
One(e) == [nodes |-> e, starts |-> <<1>>]
Join(a, b) ==
    [nodes |-> a.nodes \o b.nodes,
     starts |-> a.starts \o [k \in DOMAIN b.starts |-> b.starts[k] + Len(a.nodes)]]
Cons(e, rest) == Join(One(e), rest)

StrT(n) == <<Node("str", n, NoTag, 0, 0, <<>>)>>
IntegerT == <<Node("Integer", NoName, NoTag, 0, 0, <<>>)>>
StructRefT(n) == <<Node("StructRef", n, NoTag, 0, 0, <<>>)>>
VariantRefT(n, t) == <<Node("VariantRef", n, t, 0, 0, <<>>)>>
EnumT(n) == <<Node("Enum", NoName, NoTag, 0, 1, <<>>)>> \o StrT(n)
StructFullT(n, body) == <<Node("StructFull", n, NoTag, 0, 0, body.starts)>> \o body.nodes
VariantFullT(n, body) == <<Node("VariantFull", n, NoTag, 0, 0, body.starts)>> \o body.nodes
TypeAliasT(n, t) == <<Node("TypeAlias", n, NoTag, 1, 0, <<>>)>> \o t
FieldT(t) == <<Node("Field", NoName, NoTag, 1, 0, <<>>)>> \o t
TypeAssignmentT(t) == <<Node("TypeAssignment", NoName, NoTag, 1, 0, <<>>)>> \o t
ValueAssignmentT == <<Node("ValueAssignment", NoName, NoTag, 0, 0, <<>>)>>
TopLevelScopeT(body) ==
    <<Node("TopLevelScope", NoName, NoTag, 0, 0, body.starts)>> \o body.nodes
TopT(body) == <<Node("Top", NoName, NoTag, 0, 0, body.starts)>> \o body.nodes

\* isinstance(x, Scope)
ScopeKinds == {"StructFull", "VariantFull", "TopLevelScope", "Top"}
IsScope(n) == n.kind \in ScopeKinds

(***************************************************************************)
(* The trees get_ast can build, by the grammar (lines 1008-1059): a        *)
(* struct or variant body holds Fields and the common entries, a top-level *)
(* scope holds value and type assignments and the common entries, Top      *)
(* holds top-level scopes and the common entries.                          *)
(***************************************************************************)
LeafTypes ==
    {IntegerT} \cup {StructRefT(n) : n \in Names}
        \cup {VariantRefT(n, t) : n \in Names, t \in Tags}
        \cup {EnumT(n) : n \in Names}

FullTypes(body) ==
    {StructFullT(n, body) : n \in Names \cup {NoName}}
        \cup {VariantFullT(n, body) : n \in Names \cup {NoName}}

LeafEntries(ctx) ==
    {TypeAliasT(n, t) : n \in Names, t \in LeafTypes}
        \cup (IF ctx = "struct"
              THEN {FieldT(t) : t \in LeafTypes \cup {StrT(n) : n \in Names}}
              ELSE {})
        \cup (IF ctx = "tls"
              THEN {ValueAssignmentT} \cup {TypeAssignmentT(t) : t \in LeafTypes}
              ELSE {})

InlineEntries(ctx, body) ==
    FullTypes(body)
        \cup {TypeAliasT(n, f) : n \in Names, f \in FullTypes(body)}
        \cup (IF ctx = "struct" THEN {FieldT(f) : f \in FullTypes(body)} ELSE {})
        \cup (IF ctx = "tls" THEN {TypeAssignmentT(f) : f \in FullTypes(body)} ELSE {})

\* The entry sequences of a scope of kind ctx by number of entries, nested
\* ones included: tbl[k + 1] holds those with exactly k entries.  st and tt
\* are the tables of struct bodies and of top-level scope bodies.
RECURSIVE BodyTable(_, _, _, _, _)
BodyTable(ctx, tbl, st, tt, k) ==
    IF Len(tbl) > k THEN tbl
    ELSE LET n == Len(tbl)
             inner == IF ctx = "struct" THEN tbl ELSE st
             Sized(j) ==
                 (IF j = 1 THEN LeafEntries(ctx) ELSE {})
                     \cup UNION {InlineEntries(ctx, b) : b \in inner[j]}
                     \cup (IF ctx = "top"
                           THEN {TopLevelScopeT(b) : b \in tt[j]}
                           ELSE {})
             next == UNION {{Cons(e, rest) : e \in Sized(j), rest \in tbl[n - j + 1]}
                            : j \in 1..n}
         IN BodyTable(ctx, Append(tbl, next), st, tt, k)

SmallTrees ==
    LET st == BodyTable("struct", <<{EmptyBody}>>, <<>>, <<>>, MaxEntries)
        tt == BodyTable("tls", <<{EmptyBody}>>, st, <<>>, MaxEntries)
        top == BodyTable("top", <<{EmptyBody}>>, st, tt, MaxEntries)
    IN UNION {{TopT(b) : b \in top[k + 1]} : k \in 0..MaxEntries}

(***************************************************************************)
(* Deeper trees that define and reference x in one namespace ns: Top holds *)
(* an optional first entry (a definition of x, or a struct holding one),   *)
(* a struct whose body has up to MaxCore entries, and an optional last     *)
(* entry (a definition of x).                                              *)
(***************************************************************************)
Namespaces == {"s", "v", "a"}

\* a name that no tree defines
Undefined == <<"y">>

CoreLeaves(ns) ==
    IF ns = "s" THEN {FieldT(StructRefT(n)) : n \in Names \cup {Undefined}}
    ELSE IF ns = "v"
    THEN {FieldT(VariantRefT(n, t)) : n \in Names, t \in Tags}
             \cup {FieldT(VariantRefT(Undefined, "t1"))}
    ELSE {TypeAliasT(n, IntegerT) : n \in Names}
             \cup {FieldT(StrT(n)) : n \in Names \cup {Undefined}}
             \cup {FieldT(EnumT(n)) : n \in Names}

CoreScopes(ns, body) ==
    {StructFullT(NoName, body)} \cup
    (IF ns = "s"
     THEN {StructFullT(n, body) : n \in Names}
              \cup {FieldT(StructFullT(n, body)) : n \in Names}
     ELSE IF ns = "v"
     THEN {VariantFullT(n, body) : n \in Names}
              \cup {FieldT(VariantFullT(n, body)) : n \in Names}
     ELSE {TypeAliasT(n, StructFullT(NoName, body)) : n \in Names}
              \cup {TypeAliasT(n, VariantFullT(NoName, body)) : n \in Names})

CoreDefs(ns) ==
    IF ns = "s" THEN {StructFullT(n, One(FieldT(IntegerT))) : n \in Names}
    ELSE IF ns = "v" THEN {VariantFullT(n, One(FieldT(IntegerT))) : n \in Names}
    ELSE {TypeAliasT(n, IntegerT) : n \in Names}

RECURSIVE CoreTable(_, _, _)
CoreTable(ns, tbl, k) ==
    IF Len(tbl) > k THEN tbl
    ELSE LET n == Len(tbl)
             Sized(j) ==
                 (IF j = 1 THEN CoreLeaves(ns) ELSE {})
                     \cup UNION {CoreScopes(ns, b) : b \in tbl[j]}
             next == UNION {{Cons(e, rest) : e \in Sized(j), rest \in tbl[n - j + 1]}
                            : j \in 1..n}
         IN CoreTable(ns, Append(tbl, next), k)

CoreTrees ==
    UNION {
        LET tbl == CoreTable(ns, <<{EmptyBody}>>, MaxCore)
            first == {EmptyBody} \cup {One(d) : d \in CoreDefs(ns)}
                         \cup {One(StructFullT(NoName, One(d))) : d \in CoreDefs(ns)}
            last == {EmptyBody} \cup {One(d) : d \in CoreDefs(ns)}
        IN UNION {{TopT(Join(f, Join(One(StructFullT(NoName, b)), l)))
                      : f \in first, b \in tbl[k + 1], l \in last}
                  : k \in 1..MaxCore}
        : ns \in Namespaces}

\* Trees whose one struct body defines x, references a name, defines x
\* again and references a name again, in one namespace.
RedefTrees ==
    UNION {{TopT(One(StructFullT(NoName, Cons(d1, Cons(r1, Cons(d2, One(r2)))))))
               : d1 \in CoreDefs(ns), r1 \in CoreLeaves(ns),
                 d2 \in CoreDefs(ns), r2 \in CoreLeaves(ns)}
           : ns \in Namespaces}

Inputs == SmallTrees \cup CoreTrees \cup RedefTrees

(***************************************************************************)
(* The heap.  A tree is laid out in document order: a node comes before    *)
(* its type, its int_type and its entries, so the order of the ids of the  *)
(* nodes get_ast built is the order in which the source text states them.  *)
(* Layout turns the distances of a tree under construction into ids.       *)
(***************************************************************************)
Layout(t) ==
    [i \in DOMAIN t |->
        [t[i] EXCEPT !.type = IF @ = 0 THEN Null ELSE i + @,
                     !.int_type = IF @ = 0 THEN Null ELSE i + @,
                     !.entries = [k \in DOMAIN @ |-> i + @[k]]]]

\* the objects a node refers to
Children(h, id) ==
    ({h[id].type, h[id].int_type} \cup {h[id].entries[k] : k \in DOMAIN h[id].entries})
        \ {Null}

RECURSIVE Closure(_, _, _)
Closure(h, frontier, seen) ==
    IF frontier = {} THEN seen
    ELSE LET new == (UNION {Children(h, n) : n \in frontier}) \ (seen \cup frontier)
         IN Closure(h, new, seen \cup frontier)

\* every object reachable from id, id included
Reach(h, id) == Closure(h, {id}, {})

RECURSIVE SortedSeq(_)
SortedSeq(S) ==
    IF S = {} THEN <<>>
    ELSE LET m == CHOOSE x \in S : \A y \in S : x <= y
         IN <<m>> \o SortedSeq(S \ {m})

\* copy.deepcopy(h[r]): one new object per object reachable from r, the
\* references among them redirected to the copies; a str is atomic and is
\* shared, not copied.  src[k] is the object the k-th new object copies.
deepcopy(h, r) ==
    LET S == {n \in Reach(h, r) : h[n].kind # "str"}
        src == SortedSeq(S)
        new(n) == IF n \in S
                  THEN Len(h) + (CHOOSE k \in DOMAIN src : src[k] = n)
                  ELSE n
        copy(n) == Node(h[n].kind, h[n].name, h[n].tag, new(h[n].type),
                        new(h[n].int_type),
                        [k \in DOMAIN h[n].entries |-> new(h[n].entries[k])])
    IN [heap |-> h \o [k \in DOMAIN src |-> copy(src[k])],
        id |-> new(r),
        src |-> src]

(***************************************************************************)
(* Parser.resolve_type and its three wrappers (lines 1077-1100).           *)
(***************************************************************************)
\* the stack taken outermost table first, as a loop without reversed()
\* would take it; InnermostWins does not hold of it
NotReversed(ss) == ss

\* reversed(scope_stores)
reversed(ss) == [k \in 1..Len(ss) |-> ss[Len(ss) + 1 - k]]

\* the for loop of resolve_type: the first table, in the order given, that
\* holds typeid, as <<table>>, or <<>> when the loop ends without a hit
RECURSIVE FirstStore(_, _)
FirstStore(ss, typeid) ==
    IF ss = <<>> THEN <<>>
    ELSE IF typeid \in DOMAIN Head(ss) THEN <<Head(ss)>>
    ELSE FirstStore(Tail(ss), typeid)

\* typeid[1:]
StripPrefix(typeid) == Tail(typeid)

resolve_type(h, ss, typeid) ==
    LET hit == FirstStore(reversed(ss), typeid)
    IN IF hit = <<>>
       THEN [raised |-> TRUE, msg |-> StripPrefix(typeid), heap |-> h,
             node |-> Null, def |-> Null, src |-> <<>>]
       ELSE LET resolved == hit[1][typeid]
            IN IF h[resolved].kind = "VariantFull"
               THEN LET c == deepcopy(h, resolved)
                    IN [raised |-> FALSE, msg |-> <<>>, heap |-> c.heap,
                        node |-> c.id, def |-> resolved, src |-> c.src]
               ELSE [raised |-> FALSE, msg |-> <<>>, heap |-> h,
                     node |-> resolved, def |-> resolved, src |-> <<>>]

StructKey(name) == <<"s">> \o name

\* a variant key that shares the prefix of the struct keys;
\* NamespacesDisjoint does not hold of it
SharedKey(name) == <<"s">> \o name

VariantKey(name) == <<"v">> \o name
AliasKey(name) == <<"a">> \o name

resolve_struct(h, ss, name) == resolve_type(h, ss, StructKey(name))
resolve_variant(h, ss, name) == resolve_type(h, ss, VariantKey(name))
resolve_alias(h, ss, name) == resolve_type(h, ss, AliasKey(name))

(***************************************************************************)
(* Parser.resolve_types (lines 1102-1149) and Parser.parse (1151-1155).    *)
(* One frame per active call of resolve_types; one step per iteration of   *)
(* its for loop, per call and per return.                                  *)
(***************************************************************************)
EmptyStore == [k \in {} |-> Null]

\* a table that keeps the first node registered under a key;
\* LaterReplaces does not hold of it
PutIfAbsent(store, key, node) ==
    [k \in DOMAIN store \cup {key} |-> IF k \in DOMAIN store THEN store[k] ELSE node]

\* scope_store[key] = node
Put(store, key, node) ==
    [k \in DOMAIN store \cup {key} |-> IF k = key THEN node ELSE store[k]]

\* the same, on the table this call pushed (the last of the list)
Register(ss, key, node) == [ss EXCEPT ![Len(ss)] = Put(@, key, node)]

\* a return that leaves the table on the stack; VisibleOnlyBelow does not
\* hold of it
KeepStore(ss) == ss

\* scope_stores.pop()
PopStore(ss) == SubSeq(ss, 1, Len(ss) - 1)

\* a loop that stays on its entry; Terminates does not hold of it
SameEntry(i) == i

\* the for loop moves to the next entry
NextEntry(i) == i + 1

\* a ParseError caught in the loop, which goes on with the next entry;
\* FailFast does not hold of it
SkipEntry(fs) == [fs EXCEPT ![Len(fs)].i = @ + 1]

\* a ParseError leaves every active call of resolve_types, and parse: no
\* call has an except or a finally clause
Unwind(fs) == <<>>

Frame == frames[Len(frames)]
AtEntry == frames # <<>> /\ Frame.i <= Len(heap[Frame.scope].entries)
Entry == heap[Frame.scope].entries[Frame.i]
Subtype == heap[Entry].type
Advance(fs) == [fs EXCEPT ![Len(fs)].i = NextEntry(@)]
ActiveScopes == [k \in DOMAIN frames |-> frames[k].scope]

\* the branch of the loop body that takes the entry (lines 1108-1147)
IsFieldLike == AtEntry /\ heap[Entry].kind \in {"Field", "TypeAssignment"}
AtTypeAlias == AtEntry /\ heap[Entry].kind = "TypeAlias"
AtScopeEntry == AtEntry /\ heap[Entry].kind \in {"StructFull", "VariantFull"}
AtTopLevelScope == AtEntry /\ heap[Entry].kind = "TopLevelScope"
AtInlineScope == IsFieldLike /\ IsScope(heap[Subtype])
AtStructRef == IsFieldLike /\ heap[Subtype].kind = "StructRef"
AtVariantRef == IsFieldLike /\ heap[Subtype].kind = "VariantRef"
AtAliasName == IsFieldLike /\ heap[Subtype].kind = "str"
AtEnum == IsFieldLike /\ heap[Subtype].kind = "Enum"
AtOther ==
    /\ AtEntry
    /\ \/ heap[Entry].kind = "ValueAssignment"
       \/ /\ heap[Entry].kind \in {"Field", "TypeAssignment"}
          /\ heap[Subtype].kind = "Integer"
\* the loop is over
AtEnd == frames # <<>> /\ Frame.i > Len(heap[Frame.scope].entries)

\* the entry of resolve_types(scope, scope_stores): a new table is appended
Call(scope, ss) ==
    /\ frames' = Append(frames, [scope |-> scope, i |-> 1])
    /\ scope_stores' = Append(ss, EmptyStore)

Event(kind, key, res, tag) ==
    [entry |-> Entry, kind |-> kind, key |-> key, def |-> res.def,
     node |-> res.node, tag |-> tag, stack |-> scope_stores,
     scopes |-> ActiveScopes]

\* a lookup that returned: the slot is rewritten and the loop goes on
Resolved(kind, key, res, newheap, tag) ==
    /\ heap' = newheap
    /\ origin' = origin \o res.src
    /\ log' = Append(log, Event(kind, key, res, tag))
    /\ frames' = Advance(frames)
    /\ UNCHANGED <<scope_stores, status, err, ret, fail>>

\* a lookup that raised ParseError
Raised(kind, key, res) ==
    /\ frames' = Unwind(frames)
    /\ status' = "raised"
    /\ err' = res.msg
    /\ fail' = Append(fail, Event(kind, key, res, NoTag))
    /\ UNCHANGED <<heap, origin, log, scope_stores, ret>>

Bookkeeping ==
    /\ steps' = steps + 1
    /\ UNCHANGED <<root, ast0, integer_vars, enum_vars>>

\* parse: ast = self.get_ast(tsdl); Parser.resolve_types(ast, [])
ParseCall ==
    /\ status = "parsed"
    /\ status' = "running"
    /\ Call(root, <<>>)
    /\ UNCHANGED <<heap, origin, log, fail, err, ret>>
    /\ Bookkeeping

\* lines 1108-1109; a TypeAlias is no Scope, so line 1146 does nothing
VisitTypeAlias ==
    /\ AtTypeAlias
    /\ scope_stores' = Register(scope_stores, AliasKey(heap[Entry].name), Subtype)
    /\ frames' = Advance(frames)
    /\ UNCHANGED <<heap, origin, log, fail, status, err, ret>>
    /\ Bookkeeping

\* lines 1110-1115, then lines 1146-1147: the entry is a Scope
VisitScopeEntry ==
    /\ AtScopeEntry
    /\ LET key == IF heap[Entry].kind = "StructFull"
                  THEN StructKey(heap[Entry].name)
                  ELSE VariantKey(heap[Entry].name)
           ss == IF heap[Entry].name # NoName
                 THEN Register(scope_stores, key, Entry)
                 ELSE scope_stores
       IN Call(Entry, ss)
    /\ UNCHANGED <<heap, origin, log, fail, status, err, ret>>
    /\ Bookkeeping

\* a top-level scope (env, trace, clock, stream, event) below Top: no
\* branch of lines 1108-1116 takes it, lines 1146-1147 recurse into it
VisitTopLevelScope ==
    /\ AtTopLevelScope
    /\ Call(Entry, scope_stores)
    /\ UNCHANGED <<heap, origin, log, fail, status, err, ret>>
    /\ Bookkeeping

\* lines 1116-1128: a Field or TypeAssignment whose type is a Scope
VisitInlineScope ==
    /\ AtInlineScope
    /\ LET key == IF heap[Subtype].kind = "StructFull"
                  THEN StructKey(heap[Subtype].name)
                  ELSE VariantKey(heap[Subtype].name)
           ss == IF /\ heap[Entry].kind = "Field"
                    /\ heap[Subtype].kind \in {"StructFull", "VariantFull"}
                    /\ heap[Subtype].name # NoName
                 THEN Register(scope_stores, key, Subtype)
                 ELSE scope_stores
       IN Call(Subtype, ss)
    /\ UNCHANGED <<heap, origin, log, fail, status, err, ret>>
    /\ Bookkeeping

\* lines 1130-1132
ResolveStructRef ==
    /\ AtStructRef
    /\ LET res == resolve_struct(heap, scope_stores, heap[Subtype].name)
           key == StructKey(heap[Subtype].name)
       IN IF res.raised
          THEN Raised("StructRef", key, res)
          ELSE Resolved("StructRef", key, res,
                        [res.heap EXCEPT ![Entry].type = res.node], NoTag)
    /\ Bookkeeping

\* lines 1133-1137
ResolveVariantRef ==
    /\ AtVariantRef
    /\ LET res == resolve_variant(heap, scope_stores, heap[Subtype].name)
           key == VariantKey(heap[Subtype].name)
       IN IF res.raised
          THEN Raised("VariantRef", key, res)
          ELSE Resolved("VariantRef", key, res,
                        [res.heap EXCEPT ![res.node].tag = heap[Subtype].tag,
                                         ![Entry].type = res.node],
                        heap[Subtype].tag)
    /\ Bookkeeping

\* lines 1138-1140
ResolveAliasName ==
    /\ AtAliasName
    /\ LET res == resolve_alias(heap, scope_stores, heap[Subtype].name)
           key == AliasKey(heap[Subtype].name)
       IN IF res.raised
          THEN Raised("str", key, res)
          ELSE Resolved("str", key, res,
                        [res.heap EXCEPT ![Entry].type = res.node], NoTag)
    /\ Bookkeeping

\* lines 1141-1144
ResolveEnumIntType ==
    /\ AtEnum
    /\ LET int_type == heap[Subtype].int_type
           res == resolve_alias(heap, scope_stores, heap[int_type].name)
           key == AliasKey(heap[int_type].name)
       IN IF res.raised
          THEN Raised("Enum", key, res)
          ELSE Resolved("Enum", key, res,
                        [res.heap EXCEPT ![Subtype].int_type = res.node], NoTag)
    /\ Bookkeeping

\* an entry no branch takes: a ValueAssignment, or a Field or
\* TypeAssignment whose type is an Integer, FloatingPoint or String
VisitOther ==
    /\ AtOther
    /\ frames' = Advance(frames)
    /\ UNCHANGED <<heap, origin, log, fail, scope_stores, status, err, ret>>
    /\ Bookkeeping

\* line 1149 and the return: to the caller's loop, or to parse, which
\* returns the tree (line 1155)
ScopeExit ==
    /\ AtEnd
    /\ scope_stores' = PopStore(scope_stores)
    /\ IF Len(frames) = 1
       THEN /\ frames' = <<>>
            /\ status' = "returned"
            /\ ret' = root
       ELSE /\ frames' = Advance(SubSeq(frames, 1, Len(frames) - 1))
            /\ UNCHANGED <<status, ret>>
    /\ UNCHANGED <<heap, origin, log, fail, err>>
    /\ Bookkeeping

IntegerIdle ==
    /\ assignments = <<>>
    /\ ia = 0
    /\ integer = <<>>
    /\ istatus = "idle"

EnumIdle ==
    /\ enumerators = <<>>
    /\ ie = 0
    /\ labels = <<>>
    /\ cur = 0
    /\ curs = <<>>

ResolverIdle ==
    /\ heap = <<>>
    /\ root = Null
    /\ frames = <<>>
    /\ scope_stores = <<>>
    /\ status = "idle"
    /\ err = <<>>
    /\ ret = Null
    /\ ast0 = <<>>
    /\ origin = <<>>
    /\ log = <<>>
    /\ fail = <<>>
    /\ steps = 0

\* the heaps get_ast can return; the Top scope is the first object
InitialHeaps == {Layout(t) : t \in Inputs}

\* the state when get_ast has returned the tree of some source text
Init ==
    /\ heap \in InitialHeaps
    /\ root = 1
    /\ ast0 = heap
    /\ origin = [k \in DOMAIN heap |-> k]
    /\ frames = <<>>
    /\ scope_stores = <<>>
    /\ status = "parsed"
    /\ err = <<>>
    /\ ret = Null
    /\ log = <<>>
    /\ fail = <<>>
    /\ steps = 0
    /\ IntegerIdle
    /\ EnumIdle

Next ==
    \/ ParseCall
    \/ VisitTypeAlias
    \/ VisitScopeEntry
    \/ VisitTopLevelScope
    \/ VisitInlineScope
    \/ ResolveStructRef
    \/ ResolveVariantRef
    \/ ResolveAliasName
    \/ ResolveEnumIntType
    \/ VisitOther
    \/ ScopeExit

Spec == Init /\ [][Next]_vars

(***************************************************************************)
(* The assignments of an integer block (lines 160-258).  The grammar gives *)
(* each assignment the text of its value; the constructor of the           *)
(* assignment converts it.  A value is held as <<v>>, None as <<>>.        *)
(***************************************************************************)
None == <<>>
Some(v) == <<v>>

\* SignedAssignment.__init__: signed in ['true', '1']
SignedAssignment(signed) ==
    [type |-> "SignedAssignment", value |-> signed \in {"true", "1"}]

_byteOrderMap ==
    [k \in {"native", "be", "network", "le"} |->
        IF k = "native" THEN "NATIVE" ELSE IF k = "le" THEN "LE" ELSE "BE"]

ByteOrderAssignment(align) ==
    [type |-> "ByteOrderAssignment", value |-> _byteOrderMap[align]]

SizeAssignment(integer_value) == [type |-> "SizeAssignment", value |-> integer_value]
AlignAssignment(integer_value) == [type |-> "AlignAssignment", value |-> integer_value]

_baseMap ==
    [k \in {"decimal", "dec", "d", "i", "u", "hexadecimal", "hex", "x", "X", "p",
            "octal", "oct", "o", "binary", "bin", "b"} |->
        IF k \in {"decimal", "dec", "d", "i", "u"} THEN 10
        ELSE IF k \in {"hexadecimal", "hex", "x", "X", "p"} THEN 16
        ELSE IF k \in {"octal", "oct", "o"} THEN 8
        ELSE 2]

\* base is <<"ConstInteger", n>> or <<"keyword", k>>, the two alternatives
\* of the grammar
BaseAssignment(base) ==
    [type |-> "BaseAssignment",
     value |-> IF base[1] = "ConstInteger" THEN base[2] ELSE _baseMap[base[2]]]

_encodingMap ==
    [k \in {"none", "UTF8", "ASCII"} |-> IF k = "none" THEN "NONE" ELSE k]

EncodingAssignment(encoding) ==
    [type |-> "EncodingAssignment", value |-> _encodingMap[encoding]]

MapAssignment(expr) == [type |-> "MapAssignment", value |-> expr]

\* the assignments the integer blocks of the model are made of
Alphabet ==
    {SignedAssignment(t) : t \in {"true", "0"}}
        \cup {ByteOrderAssignment(t) : t \in {"network", "le"}}
        \cup {SizeAssignment(n) : n \in {5, 8}}
        \cup {AlignAssignment(n) : n \in {0, 4}}
        \cup {BaseAssignment(<<"ConstInteger", n>>) : n \in {7, 16}}
        \cup {BaseAssignment(<<"keyword", k>>) : k \in {"x", "b"}}
        \cup {EncodingAssignment(t) : t \in {"ASCII"}}
        \cup {MapAssignment(t) : t \in {"m"}}

\* pypeg2.some: one assignment or more, in any order
IntegerBlocks == UNION {[1..n -> Alphabet] : n \in 1..MaxAssign}

(***************************************************************************)
(* Integer.__init__ (lines 272-300).  The object is the function from the  *)
(* names of its attributes to their values; an attribute never assigned is *)
(* not in its domain.  One step per iteration of the loop, one for the     *)
(* lines after it.                                                         *)
(***************************************************************************)
\* lines 273-278
NewInteger ==
    [k \in {"_signed", "_byte_order", "_base", "_encoding", "_align", "_map"} |->
        IF k = "_signed" THEN Some(FALSE)
        ELSE IF k = "_byte_order" THEN Some("NATIVE")
        ELSE IF k = "_base" THEN Some(10)
        ELSE IF k = "_encoding" THEN Some("NONE")
        ELSE None]

InLoop == istatus = "loop" /\ ia <= Len(assignments)
Assign(type, attr) ==
    /\ InLoop
    /\ assignments[ia].type = type
    /\ integer' = Put(integer, attr, Some(assignments[ia].value))
    /\ ia' = ia + 1
    /\ UNCHANGED <<assignments, istatus, resolver_vars, enum_vars>>

SetSigned == Assign("SignedAssignment", "_signed")
SetByteOrder == Assign("ByteOrderAssignment", "_byte_order")
SetSize == Assign("SizeAssignment", "_size")
SetAlign == Assign("AlignAssignment", "_align")
SetBase == Assign("BaseAssignment", "_base")
SetEncoding == Assign("EncodingAssignment", "_encoding")
SetMap == Assign("MapAssignment", "_map")

\* a test that takes 0 for a missing value; DefaultAlignment does not hold
\* of it
IsFalsy(v) == v = None \/ v = Some(0)

\* x is None
IsNone(v) == v = None

\* lines 296-300; self._size of an object that was given no size raises
\* AttributeError
DefaultAlign ==
    /\ istatus = "loop"
    /\ ia > Len(assignments)
    /\ IF ~IsNone(integer["_align"])
       THEN istatus' = "done" /\ UNCHANGED integer
       ELSE IF "_size" \notin DOMAIN integer
       THEN istatus' = "AttributeError" /\ UNCHANGED integer
       ELSE /\ istatus' = "done"
            /\ integer' = Put(integer, "_align",
                              Some(IF integer["_size"][1] % 8 = 0 THEN 8 ELSE 1))
    /\ UNCHANGED <<assignments, ia, resolver_vars, enum_vars>>

\* the state when Integer.__init__ has run lines 273-278 on some block
InitInteger ==
    /\ assignments \in IntegerBlocks
    /\ ia = 1
    /\ integer = NewInteger
    /\ istatus = "loop"
    /\ ResolverIdle
    /\ EnumIdle

NextInteger ==
    \/ SetSigned
    \/ SetByteOrder
    \/ SetSize
    \/ SetAlign
    \/ SetBase
    \/ SetEncoding
    \/ SetMap
    \/ DefaultAlign

SpecInteger == InitInteger /\ [][NextInteger]_vars

(***************************************************************************)
(* Enum._init_enum_labels (lines 574-587).  An enumerator is a name (an    *)
(* implicit label), an EnumeratorValue or an EnumeratorRange; the values   *)
(* are ConstIntegers, so none is negative.  curs keeps, for each           *)
(* enumerator taken, the range it was given and the cursor after it.       *)
(***************************************************************************)
Keys == {"A", "B", "C"}
Implicit(key) == [type |-> "str", key |-> key, low |-> 0, high |-> 0]
EnumeratorValue(key, value) ==
    [type |-> "EnumeratorValue", key |-> key, low |-> value, high |-> value]
EnumeratorRange(key, low, high) ==
    [type |-> "EnumeratorRange", key |-> key, low |-> low, high |-> high]

Enumerators ==
    {Implicit(k) : k \in Keys}
        \cup {EnumeratorValue(k, v) : k \in Keys, v \in {0, 5}}
        \cup {EnumeratorRange(k, r[1], r[2]) : k \in Keys, r \in {<<1, 3>>, <<5, 5>>, <<4, 2>>}}

\* pypeg2.csl: one enumerator or more
EnumBodies == UNION {[1..n -> Enumerators] : n \in 1..MaxLabels}

InEnumLoop == ie >= 1 /\ ie <= Len(enumerators)

\* the cursor after an explicit value that leaves the value out;
\* CursorRule does not hold of it
AfterValueKeep(c, value) == c + 1

\* line 581, line 584, line 587
AfterImplicit(c) == c + 1
AfterValue(c, value) == value + 1
AfterRange(c, high) == high + 1

Labelled(key, low, high, c) ==
    /\ labels' = Put(labels, key, <<low, high>>)
    /\ cur' = c
    /\ curs' = Append(curs, [range |-> <<low, high>>, cur |-> c])
    /\ ie' = ie + 1
    /\ UNCHANGED <<enumerators, resolver_vars, integer_vars>>

\* lines 579-581
LabelImplicit ==
    /\ InEnumLoop
    /\ enumerators[ie].type = "str"
    /\ Labelled(enumerators[ie].key, cur, cur, AfterImplicit(cur))

\* lines 582-584
LabelValue ==
    /\ InEnumLoop
    /\ enumerators[ie].type = "EnumeratorValue"
    /\ LET a == enumerators[ie]
       IN Labelled(a.key, a.low, a.low, AfterValue(cur, a.low))

\* lines 585-587
LabelRange ==
    /\ InEnumLoop
    /\ enumerators[ie].type = "EnumeratorRange"
    /\ LET a == enumerators[ie]
       IN Labelled(a.key, a.low, a.high, AfterRange(cur, a.high))

\* the state when _init_enum_labels has run lines 575-576 on some list
InitEnum ==
    /\ enumerators \in EnumBodies
    /\ ie = 1
    /\ labels = EmptyStore
    /\ cur = 0
    /\ curs = <<>>
    /\ ResolverIdle
    /\ IntegerIdle

NextEnum ==
    \/ LabelImplicit
    \/ LabelValue
    \/ LabelRange

SpecEnum == InitEnum /\ [][NextEnum]_vars

(***************************************************************************)
(* The tree as the source text states it (read from ast0, the tree before  *)
(* the pass): which scope holds an entry, which scope holds a definition,  *)
(* which scopes enclose a scope, and which scopes the pass walks.          *)
(***************************************************************************)
Range(f) == {f[k] : k \in DOMAIN f}

\* the scopes of the source text
ScopesOf(h) == {n \in DOMAIN h : IsScope(h[n])}

\* the scope whose entry list holds entry e
EnclosingScope(e) == CHOOSE sc \in ScopesOf(ast0) : e \in Range(ast0[sc].entries)

\* the entry that states node d: d itself when d is an entry, else the
\* TypeAlias, Field or TypeAssignment whose type d is
StatingEntry(d) ==
    CHOOSE e \in DOMAIN ast0 :
        /\ \E sc \in ScopesOf(ast0) : e \in Range(ast0[sc].entries)
        /\ e = d \/ ast0[e].type = d

\* the scope in which definition d stands
HomeScope(d) == EnclosingScope(StatingEntry(d))

\* scope sc and the scopes around it, out to Top
RECURSIVE ScopeChain(_)
ScopeChain(sc) ==
    IF sc = root THEN {sc} ELSE {sc} \cup ScopeChain(HomeScope(sc))

\* the scopes resolve_types is called on: Top, and every Scope that is an
\* entry, or the type of a Field or TypeAssignment, of such a scope
RECURSIVE WalkedFrom(_)
WalkedFrom(sc) ==
    {sc} \cup UNION {
        LET e == ast0[sc].entries[k]
        IN IF IsScope(ast0[e]) THEN WalkedFrom(e)
           ELSE IF /\ ast0[e].kind \in {"Field", "TypeAssignment"}
                   /\ IsScope(ast0[ast0[e].type])
                THEN WalkedFrom(ast0[e].type)
                ELSE {}
        : k \in DOMAIN ast0[sc].entries}

WalkedScopes == WalkedFrom(root)
WalkedEntries == UNION {Range(ast0[sc].entries) : sc \in WalkedScopes}

\* the entries whose type is a reference in the source text
RefKinds == {"StructRef", "VariantRef", "str", "Enum"}
IsRefEntry(e) ==
    /\ ast0[e].kind \in {"Field", "TypeAssignment"}
    /\ ast0[ast0[e].type].kind \in RefKinds

\* the name a reference entry looks up, and the namespace it looks in
RefName(e) ==
    LET r == ast0[e].type
    IN IF ast0[r].kind = "Enum" THEN ast0[ast0[r].int_type].name ELSE ast0[r].name

RefNamespace(e) ==
    LET k == ast0[ast0[e].type].kind
    IN IF k = "StructRef" THEN "s" ELSE IF k = "VariantRef" THEN "v" ELSE "a"

\* the slot a lookup rewrote: the entry's type, or the Enum's int_type
SlotValue(ev) ==
    IF ev.kind = "Enum" THEN heap[ast0[ev.entry].type].int_type
    ELSE heap[ev.entry].type

\* node d is a definition of name n in namespace ns
Defines(d, ns, n) ==
    IF ns = "s" THEN ast0[d].kind = "StructFull" /\ ast0[d].name = n
    ELSE IF ns = "v" THEN ast0[d].kind = "VariantFull" /\ ast0[d].name = n
    ELSE \E a \in DOMAIN ast0 :
            ast0[a].kind = "TypeAlias" /\ ast0[a].type = d /\ ast0[a].name = n

(***************************************************************************)
(* C1.  After the pass returns, no reference is left in the tree: the type *)
(* of every Field and TypeAssignment reachable from the returned tree is   *)
(* no StructRef, no VariantRef and no alias name, and the int_type of      *)
(* every reachable Enum is no name.  The code does not keep this.          *)
(***************************************************************************)
IsReference(n) == heap[n].kind \in {"StructRef", "VariantRef", "str"}

NoReferenceRemains ==
    status = "returned" =>
        \A n \in Reach(heap, ret) :
            /\ heap[n].kind \in {"Field", "TypeAssignment"} => ~IsReference(heap[n].type)
            /\ heap[n].kind = "Enum" => heap[heap[n].int_type].kind # "str"

(***************************************************************************)
(* C2.  Shadowing: every lookup that returns gives the entry of the        *)
(* innermost table of the stack that holds the key, and that entry is the  *)
(* definition standing in the scope that pushed the table; so with the     *)
(* name defined in an outer and in an inner scope, a reference in the      *)
(* inner scope gets the inner definition and one in the outer scope the    *)
(* outer definition.  The rewritten slot holds that definition (a          *)
(* variant: its copy).                                                     *)
(***************************************************************************)
InnermostWins ==
    \A i \in DOMAIN log :
        LET ev == log[i]
        IN /\ \E j \in DOMAIN ev.stack :
                 /\ ev.key \in DOMAIN ev.stack[j]
                 /\ ev.stack[j][ev.key] = ev.def
                 /\ \A k \in DOMAIN ev.stack : k > j => ev.key \notin DOMAIN ev.stack[k]
                 /\ HomeScope(ev.def) = ev.scopes[j]
           /\ SlotValue(ev) = ev.node
           /\ origin[ev.node] = ev.def

\* a reference in an inner scope resolved to the inner of two definitions
ShadowingHappened ==
    \E i \in DOMAIN log :
        LET ev == log[i]
        IN \E j, k \in DOMAIN ev.stack :
              /\ j < k
              /\ ev.key \in DOMAIN ev.stack[j]
              /\ ev.key \in DOMAIN ev.stack[k]
              /\ ev.stack[j][ev.key] # ev.stack[k][ev.key]
              /\ ev.def = ev.stack[k][ev.key]
              /\ origin[SlotValue(ev)] = ev.stack[k][ev.key]

(***************************************************************************)
(* C3.  Two fields that reference the same named variant with different    *)
(* tags: after the pass each slot holds a variant carrying the field's     *)
(* tag, the two variants and the registered definition are three distinct  *)
(* objects, the definition keeps the tag it had, and the three entry lists *)
(* are equal in structure.  The code does not keep the last part when the  *)
(* references stand inside the body of the variant they name.              *)
(***************************************************************************)
ShapeDepth == 3

\* the structure below node n, unfolded k levels
RECURSIVE Shape(_, _, _)
Shape(h, n, k) ==
    IF n = Null THEN <<>>
    ELSE IF k = 0 THEN <<h[n].kind>>
    ELSE <<h[n].kind, h[n].name, h[n].tag,
           Shape(h, h[n].type, k - 1),
           Shape(h, h[n].int_type, k - 1),
           [j \in DOMAIN h[n].entries |-> Shape(h, h[n].entries[j], k - 1)]>>

EntryShapes(h, n) ==
    [j \in DOMAIN h[n].entries |-> Shape(h, h[n].entries[j], ShapeDepth)]

\* two lookups of one variant definition under two different tags
TwoTags(i, j) ==
    /\ log[i].kind = "VariantRef"
    /\ log[j].kind = "VariantRef"
    /\ log[i].def = log[j].def
    /\ log[i].tag # log[j].tag

VariantCopiesIndependent ==
    status = "returned" =>
        \A i, j \in DOMAIN log :
            TwoTags(i, j) =>
                LET n1 == heap[log[i].entry].type
                    n2 == heap[log[j].entry].type
                    d == log[i].def
                IN /\ heap[n1].kind = "VariantFull"
                   /\ heap[n2].kind = "VariantFull"
                   /\ heap[n1].tag = log[i].tag
                   /\ heap[n2].tag = log[j].tag
                   /\ n1 # n2 /\ n1 # d /\ n2 # d
                   /\ heap[d].tag = ast0[d].tag
                   /\ EntryShapes(heap, n1) = EntryShapes(heap, n2)
                   /\ EntryShapes(heap, n1) = EntryShapes(heap, d)

(***************************************************************************)
(* C4.  A lookup raises exactly when no table of the stack holds the key   *)
(* of the name in the namespace of the reference; the ParseError then      *)
(* carries the name, whatever the tables hold under that name in the two   *)
(* other namespaces; and a lookup that returns gives a definition of the   *)
(* name in the namespace of the reference.                                 *)
(***************************************************************************)
Held(stack, key) == \E j \in DOMAIN stack : key \in DOMAIN stack[j]

NamespacesDisjoint ==
    /\ (status = "raised") <=> (fail # <<>>)
    /\ \A i \in DOMAIN fail :
          LET f == fail[i]
          IN /\ f.key = <<RefNamespace(f.entry)>> \o RefName(f.entry)
             /\ ~Held(f.stack, f.key)
             /\ err = RefName(f.entry)
    /\ \A i \in DOMAIN log :
          LET ev == log[i]
          IN /\ ev.key = <<RefNamespace(ev.entry)>> \o RefName(ev.entry)
             /\ Held(ev.stack, ev.key)
             /\ Defines(ev.def, RefNamespace(ev.entry), RefName(ev.entry))

\* a lookup raised although a table held the name in another namespace
RaisedBesideOtherNamespace ==
    /\ status = "raised"
    /\ fail # <<>>
    /\ \E ns \in Namespaces \ {RefNamespace(fail[1].entry)} :
          Held(fail[1].stack, <<ns>> \o RefName(fail[1].entry))

(***************************************************************************)
(* C5.  Fail-fast: at most one ParseError is raised; once it is raised no  *)
(* call is active, parse returns nothing and no step follows; every        *)
(* reference the walk met before the failing entry was resolved; and no    *)
(* node that the source text states at or after the failing entry is       *)
(* registered or changed.                                                  *)
(***************************************************************************)
\* some step of the pass can be taken: the conditions of its eleven steps
CanStep ==
    \/ status = "parsed"
    \/ AtTypeAlias \/ AtScopeEntry \/ AtTopLevelScope \/ AtInlineScope
    \/ AtStructRef \/ AtVariantRef \/ AtAliasName \/ AtEnum
    \/ AtOther \/ AtEnd

Registered(stack) == UNION {Range(stack[j]) : j \in DOMAIN stack}

FailFast ==
    /\ Len(fail) <= 1
    /\ status = "returned" => fail = <<>> /\ ret = root
    /\ status = "raised" =>
          LET f == fail[1]
          IN /\ frames = <<>>
             /\ ret = Null
             /\ ~CanStep
             /\ \A n \in DOMAIN ast0 : n >= f.entry => heap[n] = ast0[n]
             /\ \A n \in Registered(scope_stores) : n < f.entry
             /\ \A i \in DOMAIN log : log[i].entry < f.entry
             /\ \A e \in WalkedEntries :
                   IsRefEntry(e) /\ e < f.entry =>
                       \E i \in DOMAIN log : log[i].entry = e

\* the pass raised after it resolved a reference, with a reference and a
\* definition still ahead in the walk
RaisedMidway ==
    /\ status = "raised"
    /\ log # <<>>
    /\ \E e \in WalkedEntries : e > fail[1].entry /\ IsRefEntry(e)
    /\ \E e \in WalkedEntries :
          /\ e > fail[1].entry
          /\ ast0[e].kind \in {"TypeAlias", "StructFull", "VariantFull"}

(***************************************************************************)
(* C6.  Visibility: a lookup returns only a definition that stands in the  *)
(* scope of the reference or in a scope around it; so a reference in an    *)
(* ancestor or a sibling of the defining scope never gets the definition.  *)
(***************************************************************************)
VisibleOnlyBelow ==
    \A i \in DOMAIN log :
        HomeScope(log[i].def) \in ScopeChain(EnclosingScope(log[i].entry))

\* a lookup raised although the walk had registered a definition of the
\* name, in a scope that is not around the reference
RaisedOutsideDefiningScope ==
    /\ status = "raised"
    /\ \E d \in DOMAIN ast0 :
          /\ Defines(d, RefNamespace(fail[1].entry), RefName(fail[1].entry))
          /\ StatingEntry(d) \in WalkedEntries
          /\ StatingEntry(d) < fail[1].entry
          /\ ast0[StatingEntry(d)].kind # "TypeAssignment"
          /\ HomeScope(d) \notin ScopeChain(EnclosingScope(fail[1].entry))

(***************************************************************************)
(* C7.  Termination: the pass never stops before it returns or raises,     *)
(* and it takes at most two steps per node of the source text (one per     *)
(* entry, one per return) beside the call from parse; this holds too when  *)
(* a struct or a variant holds a reference to itself.  The depth of the    *)
(* Python call stack is not modelled.                                      *)
(***************************************************************************)
StepBound == 2 * Len(ast0) + 1

Terminates ==
    /\ status \in {"returned", "raised"} \/ CanStep
    /\ status \in {"returned", "raised"} => ~CanStep
    /\ steps <= StepBound

\* the pass returned after it resolved a reference to a struct or variant
\* from inside the body of that struct or variant
SelfReferenceReturned ==
    /\ status = "returned"
    /\ \E i \in DOMAIN log : log[i].def \in Range(log[i].scopes)

(***************************************************************************)
(* C8.  The alignment of a constructed Integer: with a size assignment and *)
(* no align assignment, wherever the size stands, it is 8 when the last    *)
(* size is a multiple of 8 and 1 otherwise; with an align assignment it is *)
(* the value of the last one, 0 included, whatever the size.               *)
(***************************************************************************)
Of(type) == {k \in DOMAIN assignments : assignments[k].type = type}
Last(S) == CHOOSE k \in S : \A j \in S : j <= k
LastValue(type) == assignments[Last(Of(type))].value

DefaultAlignment ==
    istatus = "done" =>
        /\ (Of("AlignAssignment") = {} /\ Of("SizeAssignment") # {}) =>
              integer["_align"] =
                  Some(IF LastValue("SizeAssignment") % 8 = 0 THEN 8 ELSE 1)
        /\ Of("AlignAssignment") # {} =>
              integer["_align"] = Some(LastValue("AlignAssignment"))

\* an Integer was built from a block that sets align to 0 and then a size
\* that is a multiple of 8
AlignZeroKept ==
    /\ istatus = "done"
    /\ Of("AlignAssignment") # {}
    /\ LastValue("AlignAssignment") = 0
    /\ Of("SizeAssignment") # {}
    /\ LastValue("SizeAssignment") % 8 = 0
    /\ Last(Of("AlignAssignment")) < Last(Of("SizeAssignment"))

(***************************************************************************)
(* C9.  The cursor of _init_enum_labels starts at 0; an implicit label     *)
(* gets (cursor, cursor), an explicit value v gets (v, v), a range gets    *)
(* (low, high); after each label the cursor is the high of that label + 1, *)
(* so the low of an implicit label is the high of the label before it + 1  *)
(* (0 for the first); each key keeps the range it was given last.          *)
(* A, B = 5, C gives A (0, 0), B (5, 5), C (6, 6).                         *)
(***************************************************************************)
Taken == 1..Len(curs)
HighBefore(k) == IF k = 1 THEN -1 ELSE curs[k - 1].range[2]

Example == <<Implicit("A"), EnumeratorValue("B", 5), Implicit("C")>>

CursorRule ==
    /\ Len(curs) = ie - 1
    /\ cur = IF curs = <<>> THEN 0 ELSE curs[Len(curs)].cur
    /\ \A k \in Taken :
          LET a == enumerators[k]
          IN /\ curs[k].cur = curs[k].range[2] + 1
             /\ a.type = "str" =>
                   curs[k].range = <<HighBefore(k) + 1, HighBefore(k) + 1>>
             /\ a.type = "EnumeratorValue" => curs[k].range = <<a.low, a.low>>
             /\ a.type = "EnumeratorRange" => curs[k].range = <<a.low, a.high>>
    /\ DOMAIN labels = {enumerators[k].key : k \in Taken}
    /\ \A key \in DOMAIN labels :
          labels[key] = curs[Last({k \in Taken : enumerators[k].key = key})].range
    /\ (enumerators = Example /\ ie > Len(enumerators)) =>
          /\ labels["A"] = <<0, 0>>
          /\ labels["B"] = <<5, 5>>
          /\ labels["C"] = <<6, 6>>

\* the labels of A, B = 5, C are all given
ExampleLabelled ==
    /\ enumerators = Example
    /\ ie > Len(enumerators)
    /\ DOMAIN labels = Keys

(***************************************************************************)
(* C10.  Building an Integer fails exactly when some base assignment has a *)
(* value outside {2, 8, 10, 16}; an Integer that is built has a value for  *)
(* signed, byte order, base, size, alignment and encoding.  The code does  *)
(* not keep this: it builds an Integer of base 7, it raises AttributeError *)
(* on a block with neither size nor align, and a block with align and no   *)
(* size gives an Integer with no size.                                     *)
(***************************************************************************)
SupportedBases == {2, 8, 10, 16}

OnlyBadBaseFails ==
    istatus \in {"done", "AttributeError"} =>
        /\ (istatus = "AttributeError") <=>
              \E k \in Of("BaseAssignment") : assignments[k].value \notin SupportedBases
        /\ istatus = "done" =>
              \A attr \in {"_signed", "_byte_order", "_base", "_size", "_align",
                           "_encoding"} :
                  attr \in DOMAIN integer /\ integer[attr] # None

(***************************************************************************)
(* C11.  Stack discipline: while the pass runs, the stack holds one table  *)
(* per active call, its depth is the nesting depth of the scope being      *)
(* walked, and each table holds only definitions standing in the scope of  *)
(* its call; when the pass has ended, by a return or by a ParseError, the  *)
(* stack is empty.  The code does not keep the last part for a ParseError: *)
(* no call pops its table on the way out.                                  *)
(***************************************************************************)
StackDiscipline ==
    /\ status = "parsed" => scope_stores = <<>>
    /\ status = "running" =>
          /\ Len(scope_stores) = Len(frames)
          /\ Len(frames) = Cardinality(ScopeChain(Frame.scope))
          /\ \A k \in DOMAIN scope_stores :
                \A n \in Range(scope_stores[k]) : HomeScope(n) = frames[k].scope
    /\ status \in {"returned", "raised"} => scope_stores = <<>>

(***************************************************************************)
(* C12.  An inline named struct or variant, the type of a Field or of a    *)
(* TypeAssignment, is registered under its name in the table of the scope  *)
(* that holds the entry before the pass walks into it; so no reference to  *)
(* the name from inside it, or from a later entry of that scope, raises.   *)
(* The code does not keep this for a TypeAssignment.                       *)
(***************************************************************************)
IsInlineNamed(d) ==
    /\ ast0[d].kind \in {"StructFull", "VariantFull"}
    /\ ast0[d].name # NoName
    /\ StatingEntry(d) # d
    /\ ast0[StatingEntry(d)].kind \in {"Field", "TypeAssignment"}

KeyOf(d) ==
    IF ast0[d].kind = "StructFull" THEN StructKey(ast0[d].name)
    ELSE VariantKey(ast0[d].name)

InlineRegistered ==
    /\ status = "running" =>
          \A k \in DOMAIN frames :
              (k > 1 /\ IsInlineNamed(frames[k].scope)) =>
                  /\ KeyOf(frames[k].scope) \in DOMAIN scope_stores[k - 1]
                  /\ scope_stores[k - 1][KeyOf(frames[k].scope)] = frames[k].scope
    /\ \A i \in DOMAIN fail :
          ~\E d \in DOMAIN ast0 :
              /\ IsInlineNamed(d)
              /\ KeyOf(d) = fail[i].key
              /\ StatingEntry(d) \in WalkedEntries
              /\ StatingEntry(d) < fail[i].entry
              /\ HomeScope(d) \in ScopeChain(EnclosingScope(fail[i].entry))

(***************************************************************************)
(* C13.  Order within a scope: a reference to a name that an entry of the  *)
(* scope of the reference, or of a scope around it, defines (a TypeAlias,  *)
(* a named struct, a named variant) never raises, whether the defining     *)
(* entry stands before or after the reference.  The code does not keep     *)
(* this for a defining entry that stands after the reference.              *)
(***************************************************************************)
\* node d is the definition of name n in namespace ns that an entry of a
\* scope states: the type of a TypeAlias, or a named struct or variant
\* that is itself the entry
EntryDefines(d, ns, n) ==
    /\ Defines(d, ns, n)
    /\ ns = "a" \/ StatingEntry(d) = d

\* the definitions of the name of reference entry e that entries of the
\* scopes around e state
DefinedAround(e) ==
    {d \in DOMAIN ast0 :
        /\ \E x \in DOMAIN ast0 :
              /\ x = d \/ ast0[x].type = d
              /\ \E sc \in ScopeChain(EnclosingScope(e)) : x \in Range(ast0[sc].entries)
        /\ EntryDefines(d, RefNamespace(e), RefName(e))}

OrderIndependent ==
    \A i \in DOMAIN fail : DefinedAround(fail[i].entry) = {}

(***************************************************************************)
(* C14.  Sharing: a struct reference, an alias name and the base type name *)
(* of an enum get the registered object itself, whatever the kind of type  *)
(* an alias is bound to; only a variant reference gets a copy, a new one   *)
(* for each reference, and no other object is ever created.  The code does *)
(* not keep this for an alias bound to a full variant.                     *)
(***************************************************************************)
SharedKinds == {"StructRef", "str", "Enum"}

SharedNotCopied ==
    /\ \A i \in DOMAIN log :
          IF log[i].kind \in SharedKinds
          THEN log[i].node = log[i].def /\ SlotValue(log[i]) = log[i].def
          ELSE /\ log[i].node \notin DOMAIN ast0
               /\ SlotValue(log[i]) = log[i].node
               /\ \A j \in DOMAIN log : j # i => log[j].node # log[i].node
    /\ \A n \in DOMAIN heap :
          n \notin DOMAIN ast0 =>
              \E i \in DOMAIN log :
                  log[i].kind = "VariantRef" /\ n \in Reach(heap, log[i].node)

(***************************************************************************)
(* C15.  Redefinition in one scope: a lookup gets, from the scope whose    *)
(* table holds the name, the definition that was registered last before    *)
(* the reference; so with two definitions of a name in one scope a         *)
(* reference between them gets the first and a reference after the second  *)
(* gets the second; and a slot once rewritten keeps what it got, whatever  *)
(* is registered later.                                                    *)
(***************************************************************************)
\* node d is registered under name n in namespace ns when the walk takes
\* the entry that states it
Registers(d, ns, n) ==
    \/ EntryDefines(d, ns, n)
    \/ /\ ns # "a"
       /\ Defines(d, ns, n)
       /\ ast0[StatingEntry(d)].kind = "Field"

\* the definitions registered before reference entry e in the scope of d
RegisteredBefore(e, d) ==
    {c \in DOMAIN ast0 :
        /\ Registers(c, RefNamespace(e), RefName(e))
        /\ HomeScope(c) = HomeScope(d)
        /\ StatingEntry(c) < e}

LaterReplaces ==
    \A i \in DOMAIN log :
        LET ev == log[i]
        IN /\ ev.def \in RegisteredBefore(ev.entry, ev.def)
           /\ \A c \in RegisteredBefore(ev.entry, ev.def) :
                 StatingEntry(c) <= StatingEntry(ev.def)
           /\ origin[SlotValue(ev)] = ev.def

\* the pass returned after a reference between two definitions of a scope
\* got the first and a reference after the second got the second
RedefinedBetween ==
    /\ status = "returned"
    /\ \E i, j \in DOMAIN log :
          /\ log[i].key = log[j].key
          /\ log[i].def # log[j].def
          /\ EnclosingScope(log[i].entry) = EnclosingScope(log[j].entry)
          /\ HomeScope(log[i].def) = EnclosingScope(log[i].entry)
          /\ HomeScope(log[j].def) = EnclosingScope(log[i].entry)
          /\ StatingEntry(log[i].def) < log[i].entry
          /\ log[i].entry < StatingEntry(log[j].def)
          /\ StatingEntry(log[j].def) < log[j].entry
          /\ origin[SlotValue(log[i])] = log[i].def
          /\ origin[SlotValue(log[j])] = log[j].def

====
